---- MODULE Spec2Model ----
(***************************************************************************)
(* Institution / endpoint resolution of ciecplib (ciecplib/utils.py):      *)
(* get_idps, _match_institution, get_idp_urls, _endpoint_url and           *)
(* format_endpoint_url, as a state machine over the listing served at the  *)
(* IdP list URL and the calls a client makes.                              *)
(*                                                                         *)
(* A Python str is a sequence of one-character strings.  A call's outcome  *)
(* is a record: tag "return" with the value, tag "raise" with the          *)
(* exception, tag "none" when the step was not executed.                   *)
(***************************************************************************)
EXTENDS Integers, Sequences, FiniteSets, TLC

VARIABLES
    remote,       \* the lines the IdP list URL serves now (what urlopen yields)
    url_or_name,  \* argument of the latest format_endpoint_url call
    kerberos,     \* argument of the latest format_endpoint_url call
    idps,         \* outcome of get_idps() in the latest call, with what it read
    matched,      \* outcome of _match_institution() in the latest call
    urls,         \* outcome of get_idp_urls() in the latest call
    out,          \* outcome of the latest format_endpoint_url call
    prev          \* the call before the latest, when the latest re-formats its result

vars == <<remote, url_or_name, kerberos, idps, matched, urls, out, prev>>

----------------------------------------------------------------------------
(* Bounds of the model *)

MaxLines == 2
MaxParts == 4

----------------------------------------------------------------------------
(* str helpers *)

Letters ==
    {"a", "b", "c", "d", "e", "f", "g", "h", "i", "j", "k", "l", "m",
     "n", "o", "p", "q", "r", "s", "t", "u", "v", "w", "x", "y", "z",
     "A", "B", "C", "D", "E", "F", "G", "H", "I", "J", "K", "L", "M",
     "N", "O", "P", "Q", "R", "S", "T", "U", "V", "W", "X", "Y", "Z"}

Digits == {"0", "1", "2", "3", "4", "5", "6", "7", "8", "9"}

\* str.strip() with no argument strips these
Whitespace == {" ", "\t", "\n", "\r", "\f"}

\* s[i:] for a 1-based i
Drop(s, i) == SubSeq(s, i, Len(s))

\* s[:i-1] for a 1-based i
Take(s, i) == SubSeq(s, 1, i - 1)

\* s.endswith(t)
EndsWith(s, t) ==
    /\ Len(t) <= Len(s)
    /\ SubSeq(s, Len(s) - Len(t) + 1, Len(s)) = t

\* s.startswith(t)
StartsWith(s, t) ==
    /\ Len(t) <= Len(s)
    /\ SubSeq(s, 1, Len(t)) = t

\* s.count(c) for a one-character c
Count(s, c) == Cardinality({i \in 1..Len(s) : s[i] = c})

\* 1-based s.find(c) over a set of characters: the first position holding one
\* of them, Len(s) + 1 when there is none
FindAny(s, cs) ==
    IF \A i \in 1..Len(s) : s[i] \notin cs THEN Len(s) + 1
    ELSE CHOOSE i \in 1..Len(s) : s[i] \in cs /\ \A j \in 1..(i - 1) : s[j] \notin cs

\* str.strip()
Strip(s) ==
    IF \A i \in 1..Len(s) : s[i] \in Whitespace THEN <<>>
    ELSE SubSeq(s,
                CHOOSE i \in 1..Len(s) :
                    s[i] \notin Whitespace /\ \A j \in 1..(i - 1) : s[j] \in Whitespace,
                CHOOSE i \in 1..Len(s) :
                    s[i] \notin Whitespace /\ \A j \in (i + 1)..Len(s) : s[j] \in Whitespace)

----------------------------------------------------------------------------
(* Outcomes *)

NoExc == [type |-> "", msg |-> "", arg |-> <<>>]

Exc(type, msg, arg) == [type |-> type, msg |-> msg, arg |-> arg]

\* a Python value that is a str or None
PyStr(s) == [none |-> FALSE, s |-> s]

PyNone == [none |-> TRUE, s |-> <<>>]

----------------------------------------------------------------------------
(* Constants of utils.py *)

_KERBEROS_SUFFIX == <<" ", "(", "K", "e", "r", "b", "e", "r", "o", "s", ")">>

DotStar == <<".", "*">>

\* _KERBEROS_REGEX.split(name, 1)[0]: the pattern is the escaped suffix
\* anchored by \Z, so the only possible match is the trailing suffix, and the
\* piece before it is returned; without a match the name comes back whole.
StripKerberos(name) ==
    IF EndsWith(name, _KERBEROS_SUFFIX)
    THEN SubSeq(name, 1, Len(name) - Len(_KERBEROS_SUFFIX))
    ELSE name

----------------------------------------------------------------------------
(* get_idps *)

\* line.decode('utf-8').strip().split(' ', 1), on the stripped line s
SplitAt(s, i) == IF i > Len(s) THEN <<s>> ELSE <<Take(s, i), Drop(s, i + 1)>>

SplitStripped(s) == SplitAt(s, FindAny(s, {" "}))

SplitLine(line) == SplitStripped(Strip(line))

\* idps[inst] = url
DictSet(d, k, v) == [x \in (DOMAIN d) \cup {k} |-> IF x = k THEN v ELSE d[x]]

Unpacking == Exc("ValueError", "not enough values to unpack", <<>>)

\* the for loop of get_idps over the lines urlopen yielded: a line that does
\* not split in two raises ValueError at the tuple unpacking and the dict
\* built so far is dropped with the frame
RECURSIVE ParseLines(_, _)
\* a loop that skips a line it cannot unpack
ParseParts_skip(parts, rest, d) ==
    IF Len(parts) # 2
    THEN ParseLines(rest, d)
    ELSE ParseLines(rest, DictSet(d, parts[2], parts[1]))

ParseParts(parts, rest, d) ==
    IF Len(parts) # 2
    THEN [tag |-> "raise", exc |-> Unpacking, val |-> <<>>]
    ELSE ParseLines(rest, DictSet(d, parts[2], parts[1]))

ParseLines(lines, d) ==
    IF lines = <<>> THEN [tag |-> "return", exc |-> NoExc, val |-> d]
    ELSE ParseParts(SplitLine(Head(lines)), Tail(lines), d)

\* urllib_request.urlopen(url): the listing as served at the time of the call
urlopen == remote

\* the outcome of get_idps(), and in reads every listing a urlopen of it read
Fetched(lines, parsed) ==
    [tag |-> parsed.tag, exc |-> parsed.exc, val |-> parsed.val, reads |-> <<lines>>]

get_idps_from(lines) == Fetched(lines, ParseLines(lines, <<>>))

\* a fetch that keeps the directory of an earlier call
get_idps_cached == IF idps.tag = "return" THEN idps ELSE get_idps_from(urlopen)

get_idps == get_idps_from(urlopen)

----------------------------------------------------------------------------
(* The pattern of _match_institution *)

\* re.compile(value + "($| \()"): value is not escaped.  The model reads, in
\* value, '.' as any character but a newline, '*' as the repetition of the
\* element before it, and every other character as itself; queries with other
\* metacharacters are outside the model.
RECURSIVE Elements(_)
Elements(v) ==
    IF v = <<>> THEN <<>>
    ELSE IF Len(v) >= 2 /\ v[2] = "*"
         THEN <<[ch |-> v[1], star |-> TRUE]>> \o Elements(Drop(v, 3))
         ELSE <<[ch |-> v[1], star |-> FALSE]>> \o Elements(Tail(v))

\* re.compile raises re.error for a '*' with nothing to repeat: one that
\* opens the pattern or follows another '*'
Compiles(v) ==
    \A i \in 1..Len(v) : v[i] = "*" => (i > 1 /\ v[i - 1] # "*")

CharMatch(c, x) == IF c = "." THEN x # "\n" ELSE c = x

\* the positions the match can stand at after one more element
StepEnds(P, el, s) ==
    IF el.star
    THEN {q \in 0..Len(s) :
            \E p \in P : p <= q /\ \A i \in (p + 1)..q : CharMatch(el.ch, s[i])}
    ELSE {p + 1 : p \in {r \in P : r < Len(s) /\ CharMatch(el.ch, s[r + 1])}}

RECURSIVE MatchEnds(_, _, _)
MatchEnds(els, P, s) ==
    IF els = <<>> \/ P = {} THEN P
    ELSE MatchEnds(Tail(els), StepEnds(P, Head(els), s), s)

\* a pattern without the closing group: any prefix match counts
GroupAt_any(inst, e) == TRUE

\* the group ($| \() at position e of inst: '$' (the end, or just before a
\* final newline) or the two characters " ("
GroupAt(inst, e) ==
    \/ e = Len(inst)
    \/ e = Len(inst) - 1 /\ inst[Len(inst)] = "\n"
    \/ e + 2 <= Len(inst) /\ inst[e + 1] = " " /\ inst[e + 2] = "("

\* regex.match(inst) for the compiled elements of value: a match from the
\* start of inst, found when any way of matching value reaches the group
regex_match(els, inst) ==
    \E e \in MatchEnds(els, {0}, inst) : GroupAt(inst, e)

----------------------------------------------------------------------------
(* _match_institution *)

FailedToIdentify(value) == Exc("ValueError", "failed to identify IdP URLs", value)

MatchRaise(e, tried) == [tag |-> "raise", exc |-> e, val |-> <<>>, tried |-> tried]

\* a retry whose own ValueError is let through
Retried_inner(value, inner) == [inner EXCEPT !.tried = <<value>> \o inner.tried]

\* lines 104-107: a ValueError of the retry is dropped and the failure raised
\* is the one of this invocation; tried lists the value of every invocation,
\* outermost first
Retried(value, inner) ==
    IF inner.tag = "raise" /\ inner.exc.type = "ValueError"
    THEN MatchRaise(FailedToIdentify(value), <<value>> \o inner.tried)
    ELSE [inner EXCEPT !.tried = <<value>> \o inner.tried]

RECURSIVE _match_institution(_, _)
\* lines 101-108, on the stripped names and those of them the pattern matches
Decide(value, institutions, matches) ==
    IF Cardinality(matches) = 1
    THEN [tag |-> "return", exc |-> NoExc,
          val |-> CHOOSE inst \in matches : TRUE, tried |-> <<value>>]
    ELSE IF Cardinality(matches) = 0 /\ ~EndsWith(value, DotStar)
         THEN Retried(value, _match_institution(value \o DotStar, institutions))
         ELSE MatchRaise(FailedToIdentify(value), <<value>>)

\* line 100
Matches(els, institutions) == {inst \in institutions : regex_match(els, inst)}

\* line 99: institutions is rebound to the stripped names, and it is this set
\* the retry is handed
Stripped(institutions) == {StripKerberos(name) : name \in institutions}

Rebound(value, institutions) ==
    Decide(value, institutions, Matches(Elements(value), institutions))

_match_institution(value, institutions) ==
    IF ~Compiles(value)
    THEN MatchRaise(Exc("re.error", "nothing to repeat", value), <<value>>)
    ELSE Rebound(value, Stripped(institutions))

----------------------------------------------------------------------------
(* get_idp_urls *)

NotFetched == [tag |-> "none", exc |-> NoExc, val |-> <<>>, reads |-> <<>>]

NotMatched == [tag |-> "none", exc |-> NoExc, val |-> <<>>, tried |-> <<>>]

NoUrls == [tag |-> "none", exc |-> NoExc, std |-> PyNone, krb |-> PyNone]

RaiseUrls(e) == [tag |-> "raise", exc |-> e, std |-> PyNone, krb |-> PyNone]

ReturnUrls(std, krb) == [tag |-> "return", exc |-> NoExc, std |-> std, krb |-> krb]

\* a lookup that never reads the Kerberos entry
LookupUrls_nokrb(d, institution) ==
    IF institution \notin DOMAIN d
    THEN RaiseUrls(Exc("KeyError", "", institution))
    ELSE ReturnUrls(PyStr(d[institution]), PyStr(d[institution]))

\* lines 116-121, on the dict d and the name the matcher returned; d[k] for a
\* key d does not hold raises KeyError
LookupUrls(d, institution) ==
    IF EndsWith(institution, _KERBEROS_SUFFIX)
    THEN IF institution \in DOMAIN d
         THEN ReturnUrls(PyNone, PyStr(d[institution]))
         ELSE RaiseUrls(Exc("KeyError", "", institution))
    ELSE IF institution \notin DOMAIN d
         THEN RaiseUrls(Exc("KeyError", "", institution))
         ELSE IF (institution \o _KERBEROS_SUFFIX) \in DOMAIN d
              THEN ReturnUrls(PyStr(d[institution]),
                              PyStr(d[institution \o _KERBEROS_SUFFIX]))
              ELSE ReturnUrls(PyStr(d[institution]), PyStr(d[institution]))

\* lines 116-121 after the matcher's outcome m
Looked(fetched, m) ==
    [idps |-> fetched, matched |-> m,
     urls |-> IF m.tag = "raise" THEN RaiseUrls(m.exc)
              ELSE LookupUrls(fetched.val, m.val)]

\* line 115 after the outcome of get_idps
Resolved(institution, fetched) ==
    IF fetched.tag = "raise"
    THEN [idps |-> fetched, matched |-> NotMatched, urls |-> RaiseUrls(fetched.exc)]
    ELSE Looked(fetched, _match_institution(institution, DOMAIN fetched.val))

\* the outcomes of the three steps of get_idp_urls; an exception of a step
\* ends the call and is the call's outcome
get_idp_urls(institution) == Resolved(institution, get_idps)

----------------------------------------------------------------------------
(* _endpoint_url *)

scheme_chars == Letters \cup Digits \cup {"+", "-", "."}

\* urllib.parse.urlparse, the scheme and the path of its result: the scheme
\* is what precedes the first ':' when that is a letter followed by scheme
\* characters; "//" then opens a netloc that runs to the next '/', '?' or '#';
\* the path is what follows, up to the first '?' or '#'.  Only the emptiness
\* of the scheme is read, so its lower-casing is left out; inputs with ';',
\* '[', digits after the colon or leading blanks are outside the model.
urlparse(url) ==
    LET i == FindAny(url, {":"})
        schemed == /\ 1 < i
                   /\ i <= Len(url)
                   /\ url[1] \in Letters
                   /\ \A j \in 1..(i - 1) : url[j] \in scheme_chars
        rest == IF schemed THEN Drop(url, i + 1) ELSE url
        slashed == StartsWith(rest, <<"/", "/">>)
        delim == 2 + FindAny(Drop(rest, 3), {"/", "?", "#"})
        tail == IF slashed THEN Drop(rest, delim) ELSE rest
    IN  [scheme |-> IF schemed THEN Take(url, i) ELSE <<>>,
         netloc |-> IF slashed THEN SubSeq(rest, 3, delim - 1) ELSE <<>>,
         path |-> Take(tail, FindAny(tail, {"?", "#"}))]

HttpsPrefix == <<"h", "t", "t", "p", "s", ":", "/", "/">>

EcpPath ==
    <<"/", "i", "d", "p", "/", "p", "r", "o", "f", "i", "l", "e", "/",
      "S", "A", "M", "L", "2", "/", "S", "O", "A", "P", "/", "E", "C", "P">>

\* a check of the path made before the scheme is put in front
_endpoint_url_unschemed(url) ==
    IF urlparse(url).path = <<>>
    THEN (IF urlparse(url).scheme = <<>> THEN HttpsPrefix \o url ELSE url) \o EcpPath
    ELSE (IF urlparse(url).scheme = <<>> THEN HttpsPrefix \o url ELSE url)

\* lines 128-130
WithPath(url) == IF urlparse(url).path = <<>> THEN url \o EcpPath ELSE url

_endpoint_url(url) ==
    WithPath(IF urlparse(url).scheme = <<>> THEN HttpsPrefix \o url ELSE url)

----------------------------------------------------------------------------
(* format_endpoint_url *)

NoOut == [tag |-> "none", exc |-> NoExc, val |-> PyNone]

\* line 167: get_idp_urls(url_or_name)[int(kerberos)]
Selected(r, krb) ==
    [idps |-> r.idps, matched |-> r.matched, urls |-> r.urls,
     out |-> IF r.urls.tag = "raise"
             THEN [tag |-> "raise", exc |-> r.urls.exc, val |-> PyNone]
             ELSE [tag |-> "return", exc |-> NoExc,
                   val |-> IF krb THEN r.urls.krb ELSE r.urls.std]]

\* the outcomes of every step of one call
format_endpoint_url(name, krb) ==
    IF Count(name, ".") >= 2
    THEN [idps |-> NotFetched, matched |-> NotMatched, urls |-> NoUrls,
          out |-> [tag |-> "return", exc |-> NoExc,
                   val |-> PyStr(_endpoint_url(name))]]
    ELSE Selected(get_idp_urls(name), krb)

----------------------------------------------------------------------------
(* The inputs the model draws from *)

LIGO == <<"L", "I", "G", "O">>

LIGO_Laboratory == <<"L", "I", "G", "O", " ", "L", "a", "b", "o", "r", "a", "t", "o", "r", "y">>

LIGO_India == <<"L", "I", "G", "O", " ", "(", "I", "n", "d", "i", "a", ")">>

\* a name with the Kerberos suffix appended n times
RECURSIVE WithKerberos(_, _)
WithKerberos(name, n) ==
    IF n = 0 THEN name ELSE WithKerberos(name, n - 1) \o _KERBEROS_SUFFIX

U1 == <<"u", "1">>

U2 == <<"u", "2">>

U3 == <<"u", "3">>

\* one line of the listing as urlopen yields it: "<url> <name>\n"
Line(url, name) == url \o <<" ">> \o name \o <<"\n">>

\* the lines the listing may hold, among them one without an institution name
Lines ==
    { Line(U1, LIGO),
      Line(U3, LIGO),
      Line(U2, WithKerberos(LIGO, 1)),
      Line(U3, WithKerberos(LIGO, 2)),
      Line(U1, LIGO_Laboratory),
      Line(U2, WithKerberos(LIGO_Laboratory, 1)),
      Line(U3, LIGO_India),
      U1 \o <<"\n">> }

login_ligo_org == <<"l", "o", "g", "i", "n", ".", "l", "i", "g", "o", ".", "o", "r", "g">>

\* the institution names and the hostname a client asks for
Queries ==
    { LIGO,
      LIGO \o <<" ">>,
      LIGO \o DotStar,
      LIGO \o <<" ">> \o DotStar,
      LIGO_Laboratory,
      <<"N", "o", "n", "e", "x", "i", "s", "t", "e", "n", "t", " ", "O", "r", "g">>,
      login_ligo_org }

\* the pieces URL inputs are put together from
UrlParts ==
    { <<"h", "t", "t", "p", "s", ":">>,
      <<"/", "/">>,
      login_ligo_org,
      <<"l", "o", "g", "i", "n", ".", "e", "x", "a", "m", "p", "l", "e", ".", "c", "o", "m">>,
      <<"/", "c", "u", "s", "t", "o", "m", "/", "p", "a", "t", "h">>,
      <<"?">> }

RECURSIVE Concats(_)
Concats(n) ==
    IF n = 0 THEN {<<>>}
    ELSE Concats(n - 1) \cup {x \o part : x \in Concats(n - 1), part \in UrlParts}

\* the inputs format_endpoint_url classifies as a URL or hostname
UrlInputs == {x \in Concats(MaxParts) : Count(x, ".") >= 2}

----------------------------------------------------------------------------
(* The state machine *)

NoPrev == [called |-> FALSE, url_or_name |-> <<>>, out |-> NoOut]

Idle ==
    /\ kerberos = FALSE
    /\ idps = NotFetched
    /\ matched = NotMatched
    /\ urls = NoUrls
    /\ out = NoOut
    /\ prev = NoPrev

Init ==
    /\ remote = <<>>
    /\ url_or_name = <<>>
    /\ Idle

\* whoever runs the IdP list adds a line to it
Publish(line) ==
    /\ Len(remote) < MaxLines
    /\ remote' = Append(remote, line)
    /\ UNCHANGED <<url_or_name, kerberos, idps, matched, urls, out, prev>>

\* one call format_endpoint_url(name, kerberos=krb), start to end
Call(name, krb) ==
    \E r \in {format_endpoint_url(name, krb)} :
        /\ url_or_name' = name
        /\ kerberos' = krb
        /\ idps' = r.idps
        /\ matched' = r.matched
        /\ urls' = r.urls
        /\ out' = r.out
        /\ UNCHANGED remote

FormatEndpointUrl(name, krb) ==
    /\ Call(name, krb)
    /\ UNCHANGED prev

Next ==
    \/ \E line \in Lines : Publish(line)
    \/ \E name \in Queries, krb \in BOOLEAN : FormatEndpointUrl(name, krb)

Spec == Init /\ [][Next]_vars

----------------------------------------------------------------------------
(* URL and hostname inputs: format the input, then format the result again *)

InitUrl ==
    /\ remote = <<>>
    /\ url_or_name \in UrlInputs
    /\ Idle

FormatGiven(krb) ==
    /\ out.tag = "none"
    /\ Call(url_or_name, krb)
    /\ UNCHANGED prev

FormatAgain(krb) ==
    /\ ~prev.called
    /\ out.tag = "return"
    /\ ~out.val.none
    /\ Call(out.val.s, krb)
    /\ prev' = [called |-> TRUE, url_or_name |-> url_or_name, out |-> out]

NextUrl ==
    \/ \E krb \in BOOLEAN : FormatGiven(krb)
    \/ \E krb \in BOOLEAN : FormatAgain(krb)

SpecUrl == InitUrl /\ [][NextUrl]_vars

----------------------------------------------------------------------------
(* What the latest call fetched and asked for *)

Keys == DOMAIN idps.val

BaseNames == Stripped(Keys)

MatcherRan == matched.tag \in {"return", "raise"}

Widened == url_or_name \o DotStar

\* the base names the pattern of the query matches, and those the pattern of
\* the widened query matches
DirectMatches == Matches(Elements(url_or_name), BaseNames)

WidenedMatches == Matches(Elements(Widened), BaseNames)

\* the names the retry is handed (line 105), stripped once more at line 99
RetryMatches == Matches(Elements(Widened), Stripped(BaseNames))

Returned(s) == [tag |-> "return", exc |-> NoExc, val |-> PyStr(s)]

Raised(e) == [tag |-> "raise", exc |-> e, val |-> PyNone]

IsName == Count(url_or_name, ".") < 2

----------------------------------------------------------------------------
(* C1 *)

\* C1, as claimed: _match_institution returns a name only when exactly one
\* base name matches at the stage that returns (one direct match, or no direct
\* match, a query not ending in ".*" and one match of the widened query); the
\* retry is made at most once and only after zero matches.
C1_AsClaimed ==
    MatcherRan =>
        /\ matched.tag = "return" =>
            \/ /\ DirectMatches = {matched.val}
               /\ matched.tried = <<url_or_name>>
            \/ /\ DirectMatches = {}
               /\ ~EndsWith(url_or_name, DotStar)
               /\ WidenedMatches = {matched.val}
               /\ matched.tried = <<url_or_name, Widened>>
        /\ Len(matched.tried) <= 2
        /\ Len(matched.tried) = 2 => DirectMatches = {}

----------------------------------------------------------------------------
(* C2 *)

C2_Expected ==
    ReturnUrls(PyStr(idps.val[url_or_name]),
               PyStr(IF (url_or_name \o _KERBEROS_SUFFIX) \in Keys
                     THEN idps.val[url_or_name \o _KERBEROS_SUFFIX]
                     ELSE idps.val[url_or_name]))

\* C2, as claimed: whenever the directory has the key n, resolving n returns
\* standard = D[n] and kerberos = D[n + " (Kerberos)"], or D[n] without it.
C2_AsClaimed ==
    (idps.tag = "return" /\ url_or_name \in Keys) => urls = C2_Expected

\* C2, amended: the same, for a directory in which n is the only base name
\* the pattern n($| \() matches.
C2_KeyResolves ==
    (idps.tag = "return" /\ url_or_name \in Keys /\ Cardinality(DirectMatches) = 1)
        => urls = C2_Expected

\* a resolved institution with a Kerberos entry of its own, and one without
C2_Witness ==
    /\ idps.tag = "return"
    /\ url_or_name \in Keys
    /\ Cardinality(DirectMatches) = 1
    /\ urls.tag = "return"
    /\ (url_or_name \o _KERBEROS_SUFFIX) \in Keys
    /\ urls.krb # urls.std

----------------------------------------------------------------------------
(* C3 *)

\* C3, as claimed: when the only key for base name n is n + " (Kerberos)",
\* resolving n succeeds with standard = None and kerberos = that key's URL.
C3_AsClaimed ==
    ( /\ idps.tag = "return"
      /\ url_or_name \notin Keys
      /\ (url_or_name \o _KERBEROS_SUFFIX) \in Keys
      /\ DirectMatches = {url_or_name} )
        => urls = ReturnUrls(PyNone, PyStr(idps.val[url_or_name \o _KERBEROS_SUFFIX]))

----------------------------------------------------------------------------
(* C4 *)

C4_Case ==
    /\ url_or_name = LIGO
    /\ kerberos
    /\ idps.tag = "return"
    /\ Keys = {LIGO_Laboratory, WithKerberos(LIGO_Laboratory, 1)}

\* C4, as claimed: with "LIGO Laboratory" and "LIGO Laboratory (Kerberos)",
\* format_endpoint_url("LIGO", kerberos=True) returns the Kerberos entry's URL
\* and the first pattern matches, without the ".*" retry.
C4_AsClaimed ==
    C4_Case =>
        /\ out = Returned(idps.val[WithKerberos(LIGO_Laboratory, 1)])
        /\ matched.tried = <<LIGO>>

\* C4, amended: the call returns the Kerberos entry's URL; the first pattern
\* matches no base name and the match is the one of the single ".*" retry.
C4_MatchedByRetry ==
    C4_Case =>
        /\ out = Returned(idps.val[WithKerberos(LIGO_Laboratory, 1)])
        /\ DirectMatches = {}
        /\ matched.val = LIGO_Laboratory
        /\ matched.tried = <<LIGO, LIGO \o DotStar>>

C4_Witness == C4_Case /\ out.tag = "return"

----------------------------------------------------------------------------
(* C5 *)

C5_Case ==
    /\ MatcherRan
    /\ DirectMatches = {}
    /\ ~EndsWith(url_or_name, DotStar)
    /\ Cardinality(RetryMatches) # 1

\* C5: when nothing matches the query and the single widened retry fails too,
\* the failure is the one for the original query, no entry is returned in its
\* place, and get_idp_urls and format_endpoint_url raise it unchanged.
C5_OriginalFailure ==
    C5_Case =>
        /\ matched = MatchRaise(FailedToIdentify(url_or_name), <<url_or_name, Widened>>)
        /\ urls = RaiseUrls(FailedToIdentify(url_or_name))
        /\ out = Raised(FailedToIdentify(url_or_name))

\* a retry that failed on a directory with entries
C5_Witness == C5_Case /\ Keys # {} /\ out.tag = "raise"

----------------------------------------------------------------------------
(* C7 *)

\* C7, as claimed: for an institution name and kerberos=False the call returns
\* a URL of the directory or raises; it never returns None.
C7_AsClaimed ==
    (IsName /\ ~kerberos /\ out.tag = "return") =>
        /\ ~out.val.none
        /\ \E k \in Keys : idps.val[k] = out.val.s

----------------------------------------------------------------------------
(* C9 *)

\* a line that splits into a URL token and a name: one with a space inside
\* once the blanks around it are gone
C9_Splits(line) == \E i \in 1..Len(Strip(line)) : Strip(line)[i] = " "

C9_Url(line) == Take(Strip(line), FindAny(Strip(line), {" "}))

C9_Name(line) == Drop(Strip(line), FindAny(Strip(line), {" "}) + 1)

\* the listing the latest call read
C9_Listing == idps.reads[1]

\* C9: get_idps maps each line to name -> url, split at the first space only,
\* a later line overriding an earlier one of the same name; when a line does
\* not split the fetch raises and no directory, partial or whole, is returned.
C9_Directory ==
    idps.tag # "none" =>
        IF \A i \in 1..Len(C9_Listing) : C9_Splits(C9_Listing[i])
        THEN /\ idps.tag = "return"
             /\ Keys = {C9_Name(C9_Listing[i]) : i \in 1..Len(C9_Listing)}
             /\ \A i \in 1..Len(C9_Listing) :
                    \/ \E j \in (i + 1)..Len(C9_Listing) :
                           C9_Name(C9_Listing[j]) = C9_Name(C9_Listing[i])
                    \/ idps.val[C9_Name(C9_Listing[i])] = C9_Url(C9_Listing[i])
        ELSE /\ idps.tag = "raise"
             /\ idps.exc = Unpacking
             /\ idps.val = <<>>
             /\ matched = NotMatched
             /\ out = Raised(Unpacking)

\* a fetch that failed at its second line, after a line that does split
C9_Witness ==
    /\ idps.tag = "raise"
    /\ Len(C9_Listing) = 2
    /\ C9_Splits(C9_Listing[1])

----------------------------------------------------------------------------
(* C10 *)

\* C10: a call on an institution name reads the listing once, as served at
\* the time of the call, and resolves against the directory of that read
\* alone; a call on input with two or more '.' reads nothing.  (A step that
\* leaves the listing alone is a call.)
C10_FreshFetch ==
    [][ remote' = remote =>
          IF Count(url_or_name', ".") >= 2
          THEN idps' = NotFetched /\ matched' = NotMatched /\ urls' = NoUrls
          ELSE /\ idps'.reads = <<remote>>
               /\ idps' = get_idps_from(remote)
               /\ matched'.tag = "return" => matched'.val \in Stripped(DOMAIN idps'.val)
               /\ (out'.tag = "return" /\ ~out'.val.none) =>
                      \E k \in DOMAIN idps'.val : idps'.val[k] = out'.val.s ]_vars

\* a call that resolved a name against the listing now served
C10_Witness ==
    /\ IsName
    /\ out.tag = "return"
    /\ idps.reads = <<remote>>
    /\ Len(remote) = 2

----------------------------------------------------------------------------
(* C6 *)

C6_Schemed(x) == IF urlparse(x).scheme = <<>> THEN HttpsPrefix \o x ELSE x

C6_Expected(x) ==
    IF urlparse(C6_Schemed(x)).path = <<>> THEN C6_Schemed(x) \o EcpPath
    ELSE C6_Schemed(x)

https_login_example_com_custom_path ==
    <<"h", "t", "t", "p", "s", ":">> \o <<"/", "/">> \o
    <<"l", "o", "g", "i", "n", ".", "e", "x", "a", "m", "p", "l", "e", ".", "c", "o", "m">> \o
    <<"/", "c", "u", "s", "t", "o", "m", "/", "p", "a", "t", "h">>

\* C6: for input with two or more '.', whatever the kerberos flag, the call
\* returns the input with "https://" in front when it has no scheme and with
\* the ECP path behind when it then has no path: "login.ligo.org" gives
\* "https://login.ligo.org/idp/profile/SAML2/SOAP/ECP" and
\* "https://login.example.com/custom/path" comes back unchanged.
C6_UrlFormatted ==
    (out.tag # "none" /\ ~IsName) =>
        /\ out = Returned(C6_Expected(url_or_name))
        /\ url_or_name = login_ligo_org =>
               out.val.s = HttpsPrefix \o login_ligo_org \o EcpPath
        /\ url_or_name = https_login_example_com_custom_path =>
               out.val.s = url_or_name

\* the hostname formatted under kerberos=True
C6_Witness ==
    /\ url_or_name = login_ligo_org
    /\ kerberos
    /\ ~prev.called
    /\ out.tag = "return"

----------------------------------------------------------------------------
(* C8 *)

\* C8, as claimed: for input with two or more '.', formatting the result
\* again returns the same string, again without a lookup.
C8_AsClaimed ==
    (prev.called /\ Count(prev.url_or_name, ".") >= 2) =>
        /\ out = prev.out
        /\ idps = NotFetched

====
